---- MODULE Spec2Model ----
(***************************************************************************)
(* A model of the btcstake timelock tools: stake.py (Staker.create_stake)  *)
(* and spend.py (Spender.spend_stake) with the classes they drive,         *)
(* src/script.py, src/validation.py, src/tx.py, src/spend_p2sh.py,         *)
(* src/spend_p2wsh.py and src/utils.py.                                    *)
(*                                                                         *)
(* Representation.                                                         *)
(*  - Amounts are integers in satoshi: every Decimal of the code is        *)
(*    quantized to 8 decimals, so Decimal('0.00000546') is 546.            *)
(*  - Times are unix seconds held relative to TimeBase (TLC's integers are *)
(*    32 bit and 0x80000000 is a value the locktime checks must see):      *)
(*    Unix(c) is the model value of the unix time c, so the code's         *)
(*    "lock_time < 500000000" reads "lock_time < Unix(500000000)".         *)
(*  - The ledger (bitcoin-cli behind BitcoinRPC) is the environment: its   *)
(*    answers are chosen by \E in the action that makes the call, and any  *)
(*    call may fail (BitcoinRPC._call raises RuntimeError).                *)
(*  - A script is the sequence of its bytes, a public key the sequence of  *)
(*    its 33 bytes.                                                        *)
(***************************************************************************)
EXTENDS Integers, Sequences, FiniteSets, TLC

\* ------------------------------------------------------------------------
\* Program constants
\* ------------------------------------------------------------------------
TimeBase == 500000000        \* script.py:96, the smallest time-based locktime
MaxLockTime == 2147483647    \* script.py:99, 0x7fffffff
DaySeconds == 86400          \* script.py:57
MaxScriptDays == 365         \* validation.py:76
min_fee == 1001              \* tx.py:20, Decimal('0.00001001')
tx_size == 300               \* tx.py:18
DustLimit == 546             \* tx.py:64, Decimal('0.00000546')
TestTime == 1709352215       \* utils.py:132, 1711944215 - 30 * 86400
OP_CHECKLOCKTIMEVERIFY == 177  \* 0xb1, script.py:72
OP_DROP == 117                 \* 0x75, script.py:72
OP_CHECKSIG == 172             \* 0xac, script.py:74

Unix(c) == c - TimeBase

\* ------------------------------------------------------------------------
\* Bounds of the model
\* ------------------------------------------------------------------------
MaxAnswers == 2     \* answers typed at one confirmation prompt
MaxSpent == 1       \* outputs another wallet spends while a request runs
MaxTicks == 1       \* clock advances while a request runs

\* ------------------------------------------------------------------------
\* Sequence helpers
\* ------------------------------------------------------------------------
Repeat(b, n) == [i \in 1..n |-> b]

\* ------------------------------------------------------------------------
\* Scripts: bytes, elements, and what the ledger's decodescript reports
\* ------------------------------------------------------------------------
\* int.from_bytes(b, byteorder='little') - spend_p2wsh.py:85, spend_p2sh.py:68
RECURSIVE from_bytes_little(_)
from_bytes_little(b) ==
    IF b = <<>> THEN 0 ELSE Head(b) + 256 * from_bytes_little(Tail(b))

\* time_le without the reversal of line 67: the bytes in big-endian order
time_le_unreversed(v) ==
    << (v \div 16777216) % 256, (v \div 65536) % 256, (v \div 256) % 256, v % 256 >>

\* script.py:62,67: format(lock_time, '08x') cut in byte pairs and reversed;
\* v is the unix value, 0 <= v <= 0x7fffffff, so the hex has 8 digits.
time_le(v) ==
    << v % 256, (v \div 256) % 256, (v \div 65536) % 256, (v \div 16777216) % 256 >>

\* The elements of a script as bitcoin's script parser reads them (CScript
\* iteration in the signers, decodescript in the ledger): a byte 1..75 pushes
\* that many following bytes, any other byte is an opcode. A push that runs
\* past the end is an error element that ends the script.
RECURSIVE script_elements(_)
script_elements(s) ==
    IF s = <<>> THEN <<>>
    ELSE LET b == Head(s)
             rest == Tail(s)
         IN IF b \in 1..75
            THEN IF Len(rest) < b
                 THEN << [kind |-> "error"] >>
                 ELSE << [kind |-> "push", data |-> SubSeq(rest, 1, b)] >>
                      \o script_elements(SubSeq(rest, b + 1, Len(rest)))
            ELSE << [kind |-> "op", code |-> b] >> \o script_elements(rest)

\* The number a push of at most 4 bytes denotes in the script's asm:
\* little-endian magnitude, sign in the top bit of the last byte.
ScriptNum(data) ==
    IF data = <<>> THEN 0
    ELSE LET last == data[Len(data)]
             mag == from_bytes_little(SubSeq(data, 1, Len(data) - 1)
                                      \o << last % 128 >>)
         IN IF last >= 128 THEN 0 - mag ELSE mag

\* One asm token per element: a number for a push of up to 4 bytes, hex for a
\* longer push, the opcode's name otherwise.
AsmToken(e) ==
    IF e.kind = "push" /\ Len(e.data) <= 4
    THEN [kind |-> "num", val |-> ScriptNum(e.data)]
    ELSE IF e.kind = "push" THEN [kind |-> "hex", data |-> e.data]
    ELSE IF e.kind = "op" THEN [kind |-> "op", code |-> e.code]
    ELSE [kind |-> "error"]

IsPush(e, n) == e.kind = "push" /\ Len(e.data) = n
IsOp(e, c) == e.kind = "op" /\ e.code = c

\* An address is [kind, of]: kind "plain" is any well-formed address of
\* another wallet, "p2sh"/"p2wsh" the two addresses of the script `of`,
\* "malformed" a string the address pattern rejects.
Address(kind, of) == [kind |-> kind, of |-> of]
PlainAddress == Address("plain", <<>>)
MalformedAddress == Address("malformed", <<>>)
DataKey == Address("data", <<>>)

\* The script type decodescript reports: pay-to-pubkey-hash and pay-to-pubkey
\* are standard, the CLTV template and everything else here is nonstandard.
ScriptType(s) ==
    LET el == script_elements(s)
    IN IF Len(el) = 5 /\ IsOp(el[1], 118) /\ IsOp(el[2], 169)
          /\ IsPush(el[3], 20) /\ IsOp(el[4], 136) /\ IsOp(el[5], OP_CHECKSIG)
       THEN "pubkeyhash"
       ELSE IF Len(el) = 2 /\ IsPush(el[1], 33) /\ IsOp(el[2], OP_CHECKSIG)
       THEN "pubkey"
       ELSE "nonstandard"

\* BitcoinRPC.decodescript: asm is the space-separated token list, p2sh is the
\* script-hash address itself (stake.py:84 prints it), segwit.address the
\* witness-script-hash address (stake.py:83).
decodescript(s) ==
    [ asm |-> [i \in 1..Len(script_elements(s)) |-> AsmToken(script_elements(s)[i])],
      type |-> ScriptType(s),
      p2sh |-> Address("p2sh", s),
      segwit |-> [address |-> Address("p2wsh", s)] ]

\* int(asm[0]): a number token parses, anything else raises ValueError and an
\* empty asm raises IndexError. The value is a unix time.
AsmIntOk(asm) == asm # <<>> /\ asm[1].kind = "num"
AsmInt(asm) == Unix(asm[1].val)

\* ------------------------------------------------------------------------
\* src/validation.py: the format checks
\* ------------------------------------------------------------------------
\* validation.py:15-19
validate_address(address) == address.kind # "malformed"

\* validation.py:21-28: 66 hex digits (33 bytes) starting 02 or 03
validate_pubkey(pubkey) ==
    /\ Len(pubkey) = 33
    /\ pubkey[1] \in {2, 3}

\* A UTXO reference is the sequence of its ':'-separated fields, each field
\* [kind, id]: "hex64" is 64 hex digits naming transaction id, "hex63" one
\* digit short, "digits" the decimal id, "signed" a decimal with a sign
\* (int() reads it, the pattern rejects it), "alpha" not a number.
Field(kind, id) == [kind |-> kind, id |-> id]

\* re.match(r'^[0-9a-fA-F]{64}:[0-9]+$', utxo) - validation.py:33, config.py:125
utxo_format_ok(utxo) ==
    /\ Len(utxo) = 2
    /\ utxo[1].kind = "hex64"
    /\ utxo[2].kind = "digits"

\* txid, vout = utxo.split(':'); vout = int(vout) - spend.py:32-33, tx.py:42-43
\* raises ValueError unless there are two fields and the second is an integer
utxo_split_ok(utxo) ==
    /\ Len(utxo) = 2
    /\ utxo[2].kind \in {"digits", "signed"}

Outpoint(utxo) == [txid |-> utxo[1].id, vout |-> utxo[2].id]

\* ------------------------------------------------------------------------
\* src/script.py: the redeem script
\* ------------------------------------------------------------------------
\* validate_lock_time with the lower bound of line 96 off by one (<= for <)
validate_lock_time_low(lock_time, current_time) ==
    /\ ~(lock_time < current_time)
    /\ ~(lock_time <= Unix(500000000))
    /\ ~(lock_time > Unix(MaxLockTime))

\* script.py:91-100, True when no ValueError is raised
validate_lock_time(lock_time, current_time) ==
    /\ ~(lock_time < current_time)
    /\ ~(lock_time < Unix(500000000))
    /\ ~(lock_time > Unix(MaxLockTime))

\* script.py:102-110: int(lock_time_hex, 16) & 0x80000000 must be 0.
\* Bit 31 of the unix value lock_time + TimeBase.
validate_lock_time_hex(lock_time) ==
    (((lock_time + TimeBase) \div 1073741824) \div 2) % 2 = 0

\* script.py:70-75
cltv_script(time_bytes, pubkey) ==
    <<4>> \o time_bytes \o << OP_CHECKLOCKTIMEVERIFY, OP_DROP >>
          \o <<33>> \o pubkey \o << OP_CHECKSIG >>

\* script.py:48-89. current_time is rpc.getcurrenttime(), rpc_ok whether the
\* decodescript call of line 78 returns. <<>> is the None result.
create_redeem_script(days, pubkey, current_time, rpc_ok) ==
    IF ~validate_pubkey(pubkey) THEN <<>>
    ELSE LET lock_time == current_time + days * DaySeconds
         IN IF ~validate_lock_time(lock_time, current_time) THEN <<>>
            ELSE IF ~validate_lock_time_hex(lock_time) THEN <<>>
            ELSE IF ~rpc_ok THEN <<>>
            ELSE cltv_script(time_le(lock_time + TimeBase), pubkey)

\* utils.py:129-133
getcurrenttime(test, wall_clock) == IF test THEN Unix(TestTime) ELSE wall_clock

\* validate_script without the spend-side time check of lines 79-81
validate_script_any_time(info, spend, current_time, rpc_ok) ==
    /\ rpc_ok
    /\ info.type = "nonstandard"
    /\ Len(info.asm) = 5
    /\ AsmIntOk(info.asm)
    /\ LET locktime == AsmInt(info.asm)
       IN IF ~spend
          THEN /\ ~(locktime < current_time)
               /\ ~(locktime > current_time + MaxScriptDays * DaySeconds)
          ELSE TRUE

\* validation.py:57-89. info is the ledger's decodescript answer, rpc_ok
\* whether that call returned. TRUE when script_info is returned, FALSE when
\* None is.
validate_script(info, spend, current_time, rpc_ok) ==
    /\ rpc_ok
    /\ info.type = "nonstandard"
    /\ Len(info.asm) = 5
    /\ AsmIntOk(info.asm)
    /\ LET locktime == AsmInt(info.asm)
       IN IF ~spend
          THEN /\ ~(locktime < current_time)
               /\ ~(locktime > current_time + MaxScriptDays * DaySeconds)
          ELSE ~(locktime > current_time)

\* ------------------------------------------------------------------------
\* src/script.py, src/opreturn.py: the OP_RETURN payload, a string held as the
\* sequence of its characters
\* ------------------------------------------------------------------------
HexChars == << "0", "1", "2", "3", "4", "5", "6", "7",
               "8", "9", "a", "b", "c", "d", "e", "f" >>

\* The digits of format(n, 'x') for n >= 0
RECURSIVE HexDigits(_)
HexDigits(n) ==
    IF n < 16 THEN << HexChars[n + 1] >>
    ELSE HexDigits(n \div 16) \o << HexChars[(n % 16) + 1] >>

\* str.zfill(width): zeros on the left up to `width` characters
zfill(d, width) == IF Len(d) >= width THEN d ELSE Repeat("0", width - Len(d)) \o d

\* HexPad with the fill left out (format spec 'x' for '0<width>x')
HexPad_unpadded(n, width) ==
    IF n < 0 THEN << "-" >> \o HexDigits(0 - n) ELSE HexDigits(n)

\* f"{n:0<width>x}": at least `width` characters, zero padded after the sign;
\* a negative n gives "-" and the digits of -n in width - 1 places
HexPad(n, width) ==
    IF n < 0 THEN << "-" >> \o zfill(HexDigits(0 - n), width - 1)
    ELSE zfill(HexDigits(n), width)

\* str.lower() on the characters an address is made of here
lower(d) ==
    [i \in 1..Len(d) |->
        CASE d[i] = "A" -> "a" [] d[i] = "B" -> "b" [] d[i] = "C" -> "c"
          [] d[i] = "D" -> "d" [] d[i] = "E" -> "e" [] d[i] = "F" -> "f"
          [] OTHER -> d[i]]

\* bb_addr[2:]
drop2(d) == SubSeq(d, 3, Len(d))

\* bb_addr.startswith('0x')
startswith_0x(d) == Len(d) >= 2 /\ d[1] = "0" /\ d[2] = "x"

Magic == << "4", "6", "5", "3", "5", "4", "5", "0" >>   \* "46535450", script.py:34
BB_CHAIN_ID == << "1", "7", "7", "1" >>                 \* config.py:10, opreturn.py:8
BB_CONTRACT == Repeat("0", 37) \o << "8", "0", "0" >>   \* config.py:11, opreturn.py:9

\* int(Decimal(amount_btc) * 1000), script.py:22 and opreturn.py:23: the
\* amount, held in satoshi, in mBTC, truncated towards zero
amount_mbtc(amount_sat) ==
    IF amount_sat < 0 THEN 0 - ((0 - amount_sat) \div 100000)
    ELSE amount_sat \div 100000

\* script.py:19-46, Script.construct_op_return
construct_op_return(bb_addr, days, amount_sat) ==
    Magic \o BB_CHAIN_ID \o BB_CONTRACT \o zfill(lower(drop2(bb_addr)), 40)
          \o HexPad(amount_mbtc(amount_sat), 8) \o HexPad(days, 4)

\* opreturn.py:11-56, construct_op_return of the stand-alone tool; <<>> is
\* the None result
opreturn_construct_op_return(bb_addr, days, amount_sat) ==
    IF ~startswith_0x(bb_addr) THEN <<>>
    ELSE IF Len(lower(drop2(bb_addr))) # 40 THEN <<>>
    ELSE IF amount_mbtc(amount_sat) <= 0 THEN <<>>
    ELSE IF days <= 0 THEN <<>>
    ELSE Magic \o BB_CHAIN_ID \o BB_CONTRACT \o zfill(lower(drop2(bb_addr)), 40)
               \o HexPad(amount_mbtc(amount_sat), 8) \o HexPad(days, 4)

\* opreturn.py:13-34, the line printed when construct_op_return returns None
opreturn_error(bb_addr, days, amount_sat) ==
    IF ~startswith_0x(bb_addr) THEN "Error: BB address must start with 0x"
    ELSE IF Len(lower(drop2(bb_addr))) # 40 THEN "Error: Invalid BB address length"
    ELSE IF amount_mbtc(amount_sat) <= 0 THEN "Error: Amount must be positive"
    ELSE "Error: Days must be positive"

\* ------------------------------------------------------------------------
\* src/config.py
\* ------------------------------------------------------------------------
\* config.py:57-126, True when no ValueError is raised. amount_btc is a
\* non-empty decimal string, held as its value in satoshi.
HexLetters == { "a", "b", "c", "d", "e", "f", "A", "B", "C", "D", "E", "F" }
DecimalDigits == { "0", "1", "2", "3", "4", "5", "6", "7", "8", "9" }

\* re.match(r'^0x[0-9a-fA-F]{40}$', bb_address), config.py:80
bb_address_ok(d) ==
    /\ startswith_0x(d) /\ Len(d) = 42
    /\ \A i \in 3..42 : d[i] \in DecimalDigits \cup HexLetters

config_validate(c) ==
    /\ c.bb_address # <<>> /\ c.pubkey # <<>> /\ c.days # 0 /\ c.utxos # <<>>
    /\ bb_address_ok(c.bb_address)
    /\ ~(c.days > 365)
    /\ validate_address(c.change_address)
    /\ \A i \in 1..Len(c.utxos) : utxo_format_ok(c.utxos[i])

\* ------------------------------------------------------------------------
\* src/tx.py: fees, outputs, the raw lock transaction
\* ------------------------------------------------------------------------
\* Decimal.quantize(Decimal('0.00000001')) of n/d satoshi for n >= 0:
\* round to nearest, ties to even (the decimal context's default)
QuantizeHalfEven(n, d) ==
    LET q == n \div d
        r == n % d
    IN IF 2 * r < d THEN q
       ELSE IF 2 * r > d THEN q + 1
       ELSE IF q % 2 = 0 THEN q ELSE q + 1

\* calculate_fees adding the minimum to a fee below it instead of replacing it
calculate_fees_min_added(fee_rate) ==
    LET fee == QuantizeHalfEven(fee_rate * tx_size, 1000)
    IN IF fee < min_fee THEN fee + min_fee ELSE fee

\* tx.py:16-25; fee_rate is the ledger's feerate in satoshi per 1000 bytes
calculate_fees(fee_rate) ==
    LET fee == QuantizeHalfEven(fee_rate * tx_size, 1000)
    IN IF fee < min_fee THEN min_fee ELSE fee

Output(key, value, data) == [key |-> key, value |-> value, data |-> data]

\* outputs[key] = ... on a dict: a key already present keeps its place and
\* takes the new value, a new key goes last
DictSet(outputs, o) ==
    IF \E i \in 1..Len(outputs) : outputs[i].key = o.key
    THEN [i \in 1..Len(outputs) |-> IF outputs[i].key = o.key THEN o ELSE outputs[i]]
    ELSE Append(outputs, o)

\* change_included with the dust threshold itself let through (>= for >)
change_included_at_dust(change) == change >= DustLimit

\* tx.py:64
change_included(change) == change > DustLimit

\* tx.py:62-66; lock_address is script_info[...]['address']
build_outputs(lock_address, amount, change, change_address, op_return_data) ==
    LET o1 == DictSet(<<>>, Output(lock_address, amount, <<>>))
        o2 == IF change_included(change)
              THEN DictSet(o1, Output(change_address, change, <<>>))
              ELSE o1
    IN DictSet(o2, Output(DataKey, 0, op_return_data))

\* insufficient_funds with the check of line 58 left out
insufficient_funds_never(change) == FALSE

\* tx.py:58, "Insufficient funds"
insufficient_funds(change) == change < 0

Tx(vin, vout, locktime, sigs) ==
    [vin |-> vin, vout |-> vout, locktime |-> locktime, sigs |-> sigs]
NoTx == Tx(<<>>, <<>>, Unix(0), "none")

\* tx.py:84, the locktime create_raw_tx hands to createrawtransaction
raw_tx_locktime(info) == AsmInt(info.asm)

\* BitcoinRPC.createrawtransaction, utils.py:82-92: the ledger's unsigned
\* transaction with these inputs, outputs and locktime
createrawtransaction(inputs, outputs, locktime) == Tx(inputs, outputs, locktime, "none")

\* tx.py:79-98 once decodescript has answered with info; inputs get the
\* sequence number of line 86
create_raw_tx(inputs, outputs, info) ==
    createrawtransaction(
        [i \in 1..Len(inputs) |-> [inputs[i] EXCEPT !.sequence = "fffffffe"]],
        outputs, raw_tx_locktime(info))

\* ------------------------------------------------------------------------
\* The ledger behind BitcoinRPC
\* ------------------------------------------------------------------------
\* A ledger maps the outpoints it has ever seen to [status, value, type]:
\* status "unspent" or "spent", value in satoshi, type the scriptPubKey type.
Known(ledger, o) == o \in DOMAIN ledger

\* utils.py:53-80: gettxout reports an unspent output; in test mode a spent
\* output is found again through getrawtransaction (lines 57-78)
gettxout_found(ledger, test, o) ==
    /\ Known(ledger, o)
    /\ \/ ledger[o].status = "unspent"
       \/ test /\ ledger[o].status = "spent"

\* The JSON value of an output is a double. Decimal(str(value)) quantized to
\* 8 decimals (validation.py:44, tx.py:48) is the value again.
\* Decimal(value), without str, is the double's exact expansion, and
\* int(Decimal(value) * COIN) (spend.py:40,62,73) cuts it to the satoshi
\* below when the double nearest to value/10^8 lies below it: of the values
\* of the model that is so for 0.3 and 0.00101546.
FloatBelow == {30000000, 101546}
trunc_sat(value) == IF value \in FloatBelow THEN value - 1 ELSE value

\* validation.py:30-55 run against one ledger state: "ok", "fail" (False
\* returned)
RECURSIVE validate_utxos_from(_, _, _, _, _)
validate_utxos_from(utxos, amount, ledger, test, total_amount) ==
    IF utxos = <<>>
    THEN IF total_amount < amount THEN "fail" ELSE "ok"
    ELSE LET utxo == Head(utxos)
         IN IF ~utxo_format_ok(utxo) THEN "fail"
            ELSE IF ~gettxout_found(ledger, test, Outpoint(utxo)) THEN "fail"
            ELSE validate_utxos_from(Tail(utxos), amount, ledger, test,
                                     total_amount + ledger[Outpoint(utxo)].value)

validate_utxos(utxos, amount, ledger, test) ==
    validate_utxos_from(utxos, amount, ledger, test, 0)

\* The gettxout calls validate_utxos makes before it returns: one per
\* reference up to and including the first it rejects after a lookup
RECURSIVE validate_utxos_lookups(_, _, _)
validate_utxos_lookups(utxos, ledger, test) ==
    IF utxos = <<>> THEN <<>>
    ELSE LET utxo == Head(utxos)
         IN IF ~utxo_format_ok(utxo) THEN <<>>
            ELSE IF ~gettxout_found(ledger, test, Outpoint(utxo))
            THEN << Outpoint(utxo) >>
            ELSE << Outpoint(utxo) >> \o validate_utxos_lookups(Tail(utxos), ledger, test)

\* collect_inputs skipping an input whose lookup returns nothing (continue
\* for the return None of line 47)
RECURSIVE collect_inputs_skip(_, _, _)
collect_inputs_skip(utxos, ledger, test) ==
    IF utxos = <<>> THEN [found |-> TRUE, inputs |-> <<>>, total |-> 0]
    ELSE LET o == Outpoint(Head(utxos))
             rest == collect_inputs_skip(Tail(utxos), ledger, test)
         IN IF ~gettxout_found(ledger, test, o) THEN rest
            ELSE [found |-> TRUE,
                  inputs |-> << [txid |-> o.txid, vout |-> o.vout,
                                 sequence |-> "ffffffff"] >> \o rest.inputs,
                  total |-> ledger[o].value + rest.total]

\* tx.py:41-54: the inputs collected by the loop, or <<>> with found = FALSE
\* when a lookup returns nothing (line 45-47)
RECURSIVE collect_inputs(_, _, _)
collect_inputs(utxos, ledger, test) ==
    IF utxos = <<>> THEN [found |-> TRUE, inputs |-> <<>>, total |-> 0]
    ELSE LET o == Outpoint(Head(utxos))
         IN IF ~gettxout_found(ledger, test, o)
            THEN [found |-> FALSE, inputs |-> <<>>, total |-> 0]
            ELSE LET rest == collect_inputs(Tail(utxos), ledger, test)
                 IN IF ~rest.found THEN rest
                    ELSE [found |-> TRUE,
                          inputs |-> << [txid |-> o.txid, vout |-> o.vout,
                                         sequence |-> "ffffffff"] >> \o rest.inputs,
                          total |-> ledger[o].value + rest.total]

\* ------------------------------------------------------------------------
\* src/spend_p2sh.py, src/spend_p2wsh.py: the unlock transaction
\* ------------------------------------------------------------------------
\* spend_p2wsh.py:78-84, spend_p2sh.py:64-67: list(CScript) raises on a
\* truncated push, and len(script_elements[0]) raises TypeError when the
\* first of two or more elements is an opcode
signer_parse_ok(redeem_script) ==
    LET el == script_elements(redeem_script)
    IN /\ \A i \in 1..Len(el) : el[i].kind # "error"
       /\ Len(el) >= 2 => el[1].kind = "push"

\* spend_p2wsh.py:83-85, spend_p2sh.py:66-68: lockts, None when has = FALSE
parse_lockts(redeem_script) ==
    LET el == script_elements(redeem_script)
    IN IF Len(el) >= 2 /\ Len(el[1].data) = 4 /\ IsOp(el[2], OP_CHECKLOCKTIMEVERIFY)
       THEN [has |-> TRUE, val |-> Unix(from_bytes_little(el[1].data))]
       ELSE [has |-> FALSE, val |-> Unix(0)]

\* spend_p2wsh.py:9-46
create_and_sign_p2wsh_tx(o, payto_address, amount, fee, lockts) ==
    Tx(<< [txid |-> o.txid, vout |-> o.vout, sequence |-> "fffffffe"] >>,
       << Output(payto_address, amount - fee, <<>>) >>,
       IF lockts.has THEN lockts.val ELSE Unix(0),
       "complete")

\* spend_p2sh.py:7-33
create_and_sign_p2sh_tx(o, payto_address, amount, fee, lockts) ==
    Tx(<< [txid |-> o.txid, vout |-> o.vout,
           sequence |-> IF lockts.has THEN "fffffffe" ELSE "ffffffff"] >>,
       << Output(payto_address, amount - fee, <<>>) >>,
       IF lockts.has THEN lockts.val ELSE Unix(0),
       "complete")

\* spend_p2wsh.py:71-91
sign_p2wsh_cltv_with_script(redeem_script, o, payto_address, amount, fee) ==
    create_and_sign_p2wsh_tx(o, payto_address, amount, fee, parse_lockts(redeem_script))

\* spend_p2sh.py:57-73
sign_p2sh_cltv_with_script(redeem_script, o, payto_address, amount, fee) ==
    create_and_sign_p2sh_tx(o, payto_address, amount, fee, parse_lockts(redeem_script))

\* ------------------------------------------------------------------------
\* src/utils.py: Prompter.confirm_action
\* ------------------------------------------------------------------------
\* utils.py:147-154 on the lines the operator types (after .lower()): "y" and
\* "yes" confirm, "n", "no" and the empty line decline, anything else asks
\* again. "pending" when every line typed so far asks again.
\* confirm_action taking the empty line (the [y/N] default) for a yes
RECURSIVE confirm_action_default_yes(_)
confirm_action_default_yes(answers) ==
    IF answers = <<>> THEN "pending"
    ELSE IF Head(answers) \in {"y", "yes", ""} THEN "yes"
    ELSE IF Head(answers) \in {"n", "no"} THEN "no"
    ELSE confirm_action_default_yes(Tail(answers))

RECURSIVE confirm_action(_)
confirm_action(answers) ==
    IF answers = <<>> THEN "pending"
    ELSE IF Head(answers) \in {"y", "yes"} THEN "yes"
    ELSE IF Head(answers) \in {"n", "no", ""} THEN "no"
    ELSE confirm_action(Tail(answers))

Answers == {"y", "yes", "n", "no", "", "maybe"}

\* An entry of the history of prompts and submits: e is "privkey" (the key
\* prompt of getpass), "confirm" (stake.py's "Confirm data?"), "broadcast"
\* (tx.py's "Broadcast?") or "submit" (sendrawtransaction called); a is the
\* line that ended a confirmation prompt, "" otherwise
Event(e, a) == [e |-> e, a |-> a]

\* What the operator types at one prompt: up to MaxAnswers lines, the prompt
\* returning at the first that decides
AnswerSeqs ==
    { a \in UNION { [1..n -> Answers] : n \in 1..MaxAnswers } :
        /\ confirm_action(a) # "pending"
        /\ confirm_action(SubSeq(a, 1, Len(a) - 1)) = "pending" }

\* ------------------------------------------------------------------------
\* Inputs of the model
\* ------------------------------------------------------------------------
Key02 == <<2>> \o Repeat(17, 32)        \* a compressed public key
Key04 == <<4>> \o Repeat(17, 32)        \* 33 bytes, uncompressed prefix
KeyShort == <<2>> \o Repeat(17, 31)     \* 32 bytes
Pubkeys == {Key02, Key04, KeyShort}

Days == {-1, 0, 1, 30, 366}

\* Wall clocks of a stake request: one day before each of the four locktime
\* boundaries, and the test-mode time
StakeClocks ==
    { Unix(500000000 - DaySeconds - 1), Unix(500000000 - DaySeconds),
      Unix(MaxLockTime - DaySeconds), Unix(MaxLockTime - DaySeconds + 1),
      Unix(TestTime) }

StakeAmount == 100 * 1000                \* 0.001 BTC in satoshi
BBAddress == << "0", "x" >> \o Repeat("a", 40)

R1 == << Field("hex64", "t1"), Field("digits", 0) >>
R2 == << Field("hex64", "t2"), Field("digits", 0) >>
R3 == << Field("hex64", "t3"), Field("digits", 0) >>   \* unknown to the ledger
RShort == << Field("hex63", "t1"), Field("digits", 0) >>
RSigned == << Field("hex64", "t1"), Field("signed", 0) >>
RAlpha == << Field("hex64", "t1"), Field("alpha", 0) >>
ROne == << Field("hex64", "t1") >>
O1 == Outpoint(R1)
O2 == Outpoint(R2)

\* --utxos naming the same output twice
RepeatedUtxos == << R1, R1 >>

StakeUtxoLists == { <<R1>>, <<R1, R2>>, <<R2, R1>>, <<R1, R3>>, <<RShort>> }
SpendUtxos == { R1, R3, RSigned, RAlpha, ROne }

\* Values of output t1:0: the three around the dust boundary of a stake of
\* StakeAmount at the minimum fee, one below the minimum fee, and 0.3 BTC
O1Values == { StakeAmount + min_fee + DustLimit - 1, StakeAmount + min_fee + DustLimit,
              StakeAmount + min_fee + DustLimit + 1, 1000, 30000000 }

Ledgers ==
    { (O1 :> [status |-> st, value |-> v, type |-> ty]) @@
      (O2 :> [status |-> "unspent", value |-> 2000, type |-> "witness_v0_keyhash"]) :
        st \in {"unspent", "spent"}, v \in O1Values,
        ty \in {"scripthash", "witness_v0_scripthash", "witness_v0_keyhash"} }

\* feerate answers of estimatesmartfee in satoshi per 1000 bytes; -1 stands
\* for an answer without a feerate (KeyError in tx.py:17)
FeeRates == { -1, 1000, 3335, 3340, 5000000 }

\* Redeem scripts handed to spend.py. SpendTime is the time the unlock runs.
SpendTime == Unix(TestTime)
PayToPubkeyHash == << 118, 169, 20 >> \o Repeat(7, 20) \o << 136, OP_CHECKSIG >>
SpendScripts ==
    { cltv_script(time_le(TestTime - 1), Key02),        \* expired a second ago
      cltv_script(time_le(TestTime), Key02),            \* expires now
      cltv_script(time_le(TestTime + 1), Key02),        \* a second to go
      <<3, 160, 134, 1>> \o << OP_CHECKLOCKTIMEVERIFY, OP_DROP >>
          \o <<33>> \o Key02 \o << OP_CHECKSIG >>,      \* 3-byte push, 100000
      cltv_script(time_le(TestTime - 1), KeyShort),     \* 4-byte push, bad key push
      <<4>> \o time_le(TestTime - 1) \o << OP_DROP, OP_DROP, 33 >> \o Key02
          \o << OP_CHECKSIG >>,                         \* no CLTV
      <<4>> \o time_le(TestTime - 1) \o << OP_CHECKLOCKTIMEVERIFY, OP_DROP, 33 >>
          \o Key02,                                     \* 4 elements
      << OP_DROP, 4 >> \o time_le(TestTime - 1) \o << OP_CHECKLOCKTIMEVERIFY, 33 >>
          \o Key02 \o << OP_CHECKSIG >>,                \* opcode first
      PayToPubkeyHash }

\* The configurations of a stake request made at `current_time`. The change
\* address is another wallet's, a malformed one, or the witness-script-hash
\* address of the very script the request is about to create.
NoConfig ==
    [pubkey |-> <<>>, days |-> 0, amount_btc |-> 0, bb_address |-> <<>>,
     change_address |-> MalformedAddress, utxos |-> <<>>, use_p2sh |-> FALSE]

\* Beneficiary addresses: mixed case, 39 and 41 digits, 42 digits without
\* the "0x", and a letter that is no hex digit
BBAddressUpper == << "0", "x" >> \o Repeat("A", 20) \o Repeat("b", 20)
BBAddressShort == << "0", "x" >> \o Repeat("a", 39)
BBAddressLong == << "0", "x" >> \o Repeat("a", 41)
BBAddressBare == Repeat("a", 42)
BBAddressNotHex == << "0", "x" >> \o Repeat("g", 40)
BBAddresses == { BBAddress, BBAddressUpper, BBAddressShort, BBAddressLong,
                 BBAddressBare, BBAddressNotHex }

\* Amounts in satoshi: 0.001 BTC, 0.002 BTC, 0.0015 BTC (1.5 mBTC), 0.0005 BTC
\* (half an mBTC), and -0.001 BTC
StakeAmounts == { StakeAmount, 2 * StakeAmount, 150 * 1000, 50 * 1000, 0 - StakeAmount }

\* One plain stake request, varied in one field at a time
BaseConfig ==
    [pubkey |-> Key02, days |-> 30, amount_btc |-> StakeAmount,
     bb_address |-> BBAddress, change_address |-> PlainAddress,
     utxos |-> << R1 >>, use_p2sh |-> FALSE]

StakeConfigs(current_time) ==
    LET plain == [pubkey : Pubkeys, days : Days, amount_btc : {StakeAmount},
                  bb_address : {BBAddress},
                  change_address : {PlainAddress, MalformedAddress},
                  utxos : StakeUtxoLists, use_p2sh : BOOLEAN]
        script(c) == create_redeem_script(c.days, c.pubkey, current_time, TRUE)
    IN plain \cup
       { [c EXCEPT !.change_address = Address("p2wsh", script(c))] :
           c \in { d \in plain : d.change_address = PlainAddress /\ script(d) # <<>> } }
       \cup { [BaseConfig EXCEPT !.amount_btc = m] : m \in StakeAmounts }
       \cup { [BaseConfig EXCEPT !.bb_address = a] : a \in BBAddresses }
       \cup { [BaseConfig EXCEPT !.utxos = RepeatedUtxos, !.amount_btc = m] :
                m \in { StakeAmount, 2 * StakeAmount } }

\* opreturn.py:82-84, what the stand-alone tool is asked to encode
OpReturnDays == { -1, 0, 1, 365, 366, 65535, 65536 }
OpReturnInputs ==
    { [NoConfig EXCEPT !.bb_address = a, !.days = d, !.amount_btc = m] :
        a \in BBAddresses \cup { <<>> }, d \in OpReturnDays, m \in StakeAmounts }

NoArgs == [utxo |-> <<>>, address |-> MalformedAddress, redeem_script |-> <<>>]
NoInfo ==
    [asm |-> <<>>, type |-> "", p2sh |-> MalformedAddress,
     segwit |-> [address |-> MalformedAddress]]

\* ------------------------------------------------------------------------
\* State
\* ------------------------------------------------------------------------
VARIABLES
    flow,            \* "stake" (stake.py) or "spend" (spend.py)
    pc,              \* the call the program is about to make; "done" at exit
    result,          \* "running", then "None", "raised", "test_txid" or "txid"
    test,            \* the --test flag
    config,          \* stake.py: the Config
    args,            \* spend.py: utxo, address, redeem_script
    clock,           \* the wall clock
    ticks,           \* clock advances so far
    ledger,          \* the ledger's outputs
    nspent,          \* outputs spent by others so far
    redeem_script,   \* stake.py:29
    script_info,     \* stake.py:33, spend.py:26
    op_return_data,  \* stake.py:38
    inputs,          \* tx.py:36
    total_input,     \* tx.py:35
    amount,          \* tx.py:29, spend.py:40 (as int(amount*COIN))
    use_p2sh,        \* spend.py:42
    fee,             \* tx.py:56, spend.py:44; -1 before
    raw_tx,          \* tx.py:74
    signed_tx,       \* stake.py:55, spend.py:53
    privkey,         \* the key the caller holds: result['privkey'] of tx.py:122
                     \* in stake.py:43, privkey of spend.py:51; "" when none
    sign_complete,   \* tx.py:119, signed_result['complete'], "none" before
    lookups,         \* history: gettxout calls made, in order
    events,          \* history: prompts answered and ledger submits, in order
    submitted,       \* history: transactions handed to sendrawtransaction
    printed          \* the last "Error: ..." line the request printed, "" if none

vars == << flow, pc, result, test, config, args, clock, ticks, ledger, nspent,
           redeem_script, script_info, op_return_data, inputs, total_input,
           amount, use_p2sh, fee, raw_tx, signed_tx, privkey, sign_complete,
           lookups, events, submitted, printed >>

env == << ledger, nspent, clock, ticks >>
request == << flow, test, config, args >>
history == << lookups, events, submitted >>

Blank ==
    /\ result = "running"
    /\ ticks = 0 /\ nspent = 0
    /\ redeem_script = <<>> /\ script_info = NoInfo /\ op_return_data = <<>>
    /\ inputs = <<>> /\ total_input = 0 /\ amount = 0 /\ use_p2sh = FALSE
    /\ fee = -1 /\ raw_tx = NoTx /\ signed_tx = NoTx /\ privkey = ""
    /\ sign_complete = "none"
    /\ lookups = <<>> /\ events = <<>> /\ submitted = <<>>
    /\ printed = ""

InitStake ==
    /\ flow = "stake" /\ pc = "config"
    /\ test \in BOOLEAN
    /\ clock \in (IF test THEN {Unix(TestTime)} ELSE StakeClocks)
    /\ ledger \in { l \in Ledgers : l[O1].type = "witness_v0_keyhash" }
    /\ config \in StakeConfigs(getcurrenttime(test, clock))
    /\ args = NoArgs
    /\ Blank

InitSpend ==
    /\ flow = "spend" /\ pc = "validate_script"
    /\ test \in BOOLEAN
    /\ clock = SpendTime
    /\ ledger \in { l \in Ledgers : l[O1].type # "witness_v0_keyhash" }
    /\ args \in [utxo : SpendUtxos, address : {PlainAddress, MalformedAddress},
                 redeem_script : SpendScripts]
    /\ config = NoConfig
    /\ Blank

\* opreturn.py:67-84
InitOpReturn ==
    /\ flow = "opreturn" /\ pc = "opreturn"
    /\ test = FALSE
    /\ clock = SpendTime
    /\ ledger \in { l \in Ledgers : l[O1].type = "witness_v0_keyhash"
                                   /\ l[O1].status = "unspent"
                                   /\ l[O1].value = StakeAmount + min_fee + DustLimit }
    /\ config \in OpReturnInputs
    /\ args = NoArgs
    /\ Blank

Init == InitStake \/ InitSpend \/ InitOpReturn

\* The request ends with the value r and without an error line: a txid, the
\* payload, or the None of stake.py:63
Finish(r) == pc' = "done" /\ result' = r /\ printed' = printed

\* Fail attempting the failed call again: the error line is printed and the
\* request stays at the same call
Fail_retry(msg) == pc' = pc /\ result' = result /\ printed' = msg

\* The request ends with None after printing the error line msg
Fail(msg) == pc' = "done" /\ result' = "None" /\ printed' = msg

\* The request ends in an uncaught exception: python prints the traceback
Raise == pc' = "done" /\ result' = "raised" /\ printed' = "Traceback"

\* The request goes on with the call `next`
Goto(next) == pc' = next /\ UNCHANGED << result, printed >>

work == << redeem_script, script_info, op_return_data, inputs, total_input,
           amount, use_p2sh, fee, raw_tx, signed_tx, privkey, sign_complete >>

now == getcurrenttime(test, clock)

\* ------------------------------------------------------------------------
\* stake.py
\* ------------------------------------------------------------------------
\* stake.py:116, Config(args): config.py:30-55 ends in validate()
LoadConfig ==
    /\ flow = "stake" /\ pc = "config"
    /\ IF config_validate(config)
       THEN Goto("create_redeem_script")
       ELSE Raise
    /\ UNCHANGED << request, env, work, history >>

\* stake.py:25-32
CreateRedeemScript ==
    /\ flow = "stake" /\ pc = "create_redeem_script"
    /\ \E rpc_ok \in BOOLEAN :
        IF ~validate_address(config.change_address)
        THEN Fail("Error: Invalid change address") /\ redeem_script' = redeem_script
        ELSE LET script == create_redeem_script(config.days, config.pubkey, now, rpc_ok)
             IN /\ redeem_script' = script
                /\ IF script = <<>>
                   THEN Fail("Error: Failed to create redeem script")
                   ELSE Goto("validate_script")
    /\ UNCHANGED << request, env, history, script_info, op_return_data, inputs,
                    total_input, amount, use_p2sh, fee, raw_tx, signed_tx, privkey,
                    sign_complete >>

\* stake.py:33-41
ValidateScript ==
    /\ flow = "stake" /\ pc = "validate_script"
    /\ \E rpc_ok \in BOOLEAN :
        IF validate_script(decodescript(redeem_script), FALSE, now, rpc_ok)
        THEN /\ script_info' = decodescript(redeem_script)
             /\ op_return_data' = construct_op_return(config.bb_address, config.days,
                                                      config.amount_btc)
             /\ IF op_return_data' = <<>>
                THEN Fail("Error: Failed to construct OP_RETURN data")
                ELSE Goto("build_validate")
        ELSE /\ Fail("Error: Invalid redeem script")
             /\ UNCHANGED << script_info, op_return_data >>
    /\ UNCHANGED << request, env, history, redeem_script, inputs, total_input, amount,
                    use_p2sh, fee, raw_tx, signed_tx, privkey, sign_complete >>

\* stake.py:51-53, printed whenever build_transaction returns None
BuildFailed == "Error: Failed to build transaction"

\* tx.py:29-33, the checks build_transaction starts with. rpc_get tells
\* whether the gettxout calls return, rpc_dec whether decodescript does.
BuildValidate ==
    /\ flow = "stake" /\ pc = "build_validate"
    /\ amount' = config.amount_btc
    /\ \E rpc_get \in BOOLEAN, rpc_dec \in BOOLEAN :
        LET lk == validate_utxos_lookups(config.utxos, ledger, test)
        IN IF ~validate_address(config.change_address)
           THEN Fail(BuildFailed) /\ lookups' = lookups
           ELSE IF lk # <<>> /\ ~rpc_get
           THEN Raise /\ lookups' = Append(lookups, lk[1])
           ELSE /\ lookups' = lookups \o lk
                /\ IF validate_utxos(config.utxos, amount', ledger, test) = "fail"
                   THEN Fail(BuildFailed)
                   ELSE IF ~validate_script(decodescript(redeem_script), FALSE, now, rpc_dec)
                   THEN Fail(BuildFailed)
                   ELSE Goto("build_inputs")
    /\ UNCHANGED << request, env, events, submitted, redeem_script, script_info,
                    op_return_data, inputs, total_input, use_p2sh, fee, raw_tx,
                    signed_tx, privkey, sign_complete >>

\* tx.py:41-47, the gettxout calls of the input loop: up to the first that
\* finds nothing
RECURSIVE build_lookups(_, _, _)
build_lookups(utxos, ledger_, test_) ==
    IF utxos = <<>> THEN <<>>
    ELSE IF ~gettxout_found(ledger_, test_, Outpoint(Head(utxos)))
    THEN << Outpoint(Head(utxos)) >>
    ELSE << Outpoint(Head(utxos)) >> \o build_lookups(Tail(utxos), ledger_, test_)

\* tx.py:87-97: the ledger creates no transaction with a negative output
\* amount; the RuntimeError is caught and create_raw_tx returns None
amount_out_of_range(amount_sat) == amount_sat < 0

\* tx.py:35-77 up to the call of sign_transaction, create_raw_tx (79-98)
\* included. rpc_dec: decodescript of line 37 returns; rpc_get: the gettxout
\* calls return; rate: the estimatesmartfee answer; rpc_raw: the ledger calls
\* of create_raw_tx return.
BuildInputs ==
    /\ flow = "stake" /\ pc = "build_inputs"
    /\ \E rpc_dec \in BOOLEAN, rpc_get \in BOOLEAN, rate \in FeeRates, rpc_raw \in BOOLEAN :
        LET got == collect_inputs(config.utxos, ledger, test)
            fee_ == calculate_fees(rate)
            change == got.total - amount - fee_
            outputs == build_outputs(script_info.segwit.address, amount, change,
                                     config.change_address, op_return_data)
            tx == create_raw_tx(got.inputs, outputs, decodescript(redeem_script))
            Stop(r, seen) ==
                /\ IF r = "raised" THEN Raise ELSE Fail(BuildFailed)
                /\ lookups' = lookups \o seen
                /\ UNCHANGED << inputs, total_input, fee, raw_tx >>
        IN IF ~rpc_dec THEN Stop("raised", <<>>)
           ELSE IF ~rpc_get THEN Stop("raised", << Outpoint(config.utxos[1]) >>)
           ELSE IF ~got.found
           THEN Stop("None", build_lookups(config.utxos, ledger, test))
           ELSE /\ lookups' = lookups \o build_lookups(config.utxos, ledger, test)
                /\ total_input' = got.total
                /\ IF rate = -1
                   THEN Raise /\ UNCHANGED << inputs, fee, raw_tx >>
                   ELSE /\ fee' = fee_
                        /\ IF insufficient_funds(change)
                           THEN Fail(BuildFailed) /\ UNCHANGED << inputs, raw_tx >>
                           ELSE IF config.use_p2sh
                           THEN \* tx.py:63 indexes the p2sh address string: TypeError
                                Raise /\ UNCHANGED << inputs, raw_tx >>
                           ELSE IF ~rpc_raw \/ amount_out_of_range(amount)
                           THEN Fail(BuildFailed) /\ UNCHANGED << inputs, raw_tx >>
                           ELSE /\ inputs' = tx.vin
                                /\ raw_tx' = tx
                                /\ Goto("sign")
    /\ UNCHANGED << request, env, events, submitted, redeem_script, script_info,
                    op_return_data, amount, use_p2sh, signed_tx, privkey, sign_complete >>

PrivKeys == {"wif", "notwif", ""}

\* signed_result_tx returning the ledger's hex whatever `complete` says
signed_result_tx_any(raw, complete) ==
    [raw EXCEPT !.sigs = IF complete THEN "complete" ELSE "partial"]

\* tx.py:119-128: what sign_transaction returns for the ledger's signing
\* result: the signed transaction when complete, NoTx (None) otherwise
signed_result_tx(raw, complete) ==
    IF complete THEN [raw EXCEPT !.sigs = "complete"] ELSE NoTx

\* tx.py:100-131 and its return through build_transaction to stake.py:51-55.
\* signing is the ledger's signrawtransactionwithkey outcome: "complete",
\* "incomplete" (complete = false) or "error" (the call raises).
SignTransaction ==
    /\ flow = "stake" /\ pc = "sign"
    /\ \E key \in PrivKeys, signing \in {"complete", "incomplete", "error"} :
        LET tx == signed_result_tx(raw_tx, signing = "complete")
        IN /\ events' = Append(events, Event("privkey", ""))
           /\ sign_complete' = (IF signing = "error" THEN "none"
                                ELSE IF signing = "complete" THEN "true" ELSE "false")
           /\ IF signing = "error" \/ tx = NoTx
              THEN Fail(BuildFailed) /\ UNCHANGED << signed_tx, privkey >>
              ELSE /\ signed_tx' = tx
                   /\ privkey' = key
                   /\ Goto("confirm")
    /\ UNCHANGED << request, env, lookups, submitted, redeem_script, script_info,
                    op_return_data, inputs, total_input, amount, use_p2sh, fee, raw_tx >>

\* stake.py:62-63 with _confirm_transaction (73-91)
ConfirmTransaction ==
    /\ flow = "stake" /\ pc = "confirm"
    /\ \E a \in AnswerSeqs :
        /\ events' = Append(events, Event("confirm", a[Len(a)]))
        /\ IF confirm_action(a) = "yes"
           THEN Goto("broadcast")
           ELSE Finish("None")
    /\ UNCHANGED << request, env, work, lookups, submitted >>

\* stake.py:66-68, spend.py:87-89, printed whenever broadcast() returns None
BroadcastFailed == "Error: Failed to broadcast transaction"

\* tx.py:133-144, called at stake.py:65 and spend.py:86, with the caller's
\* `if not txid` that follows. rpc_ok: whether
\* sendrawtransaction returns a txid or raises.
Broadcast ==
    /\ pc = "broadcast"
    /\ \E a \in AnswerSeqs, rpc_ok \in BOOLEAN :
        IF confirm_action(a) # "yes"
        THEN /\ events' = Append(events, Event("broadcast", a[Len(a)]))
             /\ submitted' = submitted
             /\ Fail(BroadcastFailed)
        ELSE IF test
        THEN /\ events' = Append(events, Event("broadcast", a[Len(a)]))
             /\ submitted' = submitted
             /\ Finish("test_txid")
        ELSE /\ events' = events \o << Event("broadcast", a[Len(a)]), Event("submit", "") >>
             /\ submitted' = Append(submitted, signed_tx)
             /\ IF rpc_ok THEN Finish("txid") ELSE Fail(BroadcastFailed)
    /\ UNCHANGED << request, env, work, lookups >>

\* ------------------------------------------------------------------------
\* spend.py
\* ------------------------------------------------------------------------
\* spend.py:22-29
SpendValidate ==
    /\ flow = "spend" /\ pc = "validate_script"
    /\ \E rpc_ok \in BOOLEAN :
        IF /\ validate_address(args.address)
           /\ validate_script(decodescript(args.redeem_script), TRUE, now, rpc_ok)
        THEN /\ script_info' = decodescript(args.redeem_script)
             /\ Goto("lookup")
        ELSE /\ Fail(IF ~validate_address(args.address)
                      THEN "Error: Invalid destination address"
                      ELSE "Error: Invalid redeem script")
             /\ script_info' = script_info
    /\ UNCHANGED << request, env, history, redeem_script, op_return_data, inputs,
                    total_input, amount, use_p2sh, fee, raw_tx, signed_tx, privkey,
                    sign_complete >>

\* spend.py:31-44. rpc_ok: gettxout returns; rate: the estimatesmartfee answer.
SpendLookup ==
    /\ flow = "spend" /\ pc = "lookup"
    /\ \E rpc_ok \in BOOLEAN, rate \in FeeRates :
        LET o == Outpoint(args.utxo)
            Stop(exit) == exit /\ UNCHANGED << amount, use_p2sh, fee >>
        IN IF ~utxo_split_ok(args.utxo)
           THEN Stop(Fail("Error: Invalid UTXO format")) /\ lookups' = lookups
           ELSE /\ lookups' = Append(lookups, o)
                /\ IF ~rpc_ok THEN Stop(Raise)
                   ELSE IF ~gettxout_found(ledger, test, o)
                   THEN Stop(Fail("Error: UTXO not found or already spent"))
                   ELSE IF rate = -1 THEN Stop(Raise)
                   ELSE /\ amount' = trunc_sat(ledger[o].value)
                        /\ use_p2sh' = (ledger[o].type = "scripthash")
                        /\ fee' = calculate_fees(rate)
                        /\ Goto("sign")
    /\ UNCHANGED << request, env, events, submitted, redeem_script, script_info,
                    op_return_data, inputs, total_input, raw_tx, signed_tx, privkey,
                    sign_complete >>

\* spend.py:46-81
SpendSign ==
    /\ flow = "spend" /\ pc = "sign"
    /\ events' = Append(events, Event("privkey", ""))
    /\ \E key \in PrivKeys :
        LET o == Outpoint(args.utxo)
            tx == IF use_p2sh
                  THEN sign_p2sh_cltv_with_script(args.redeem_script, o, args.address,
                                                  amount, fee)
                  ELSE sign_p2wsh_cltv_with_script(args.redeem_script, o, args.address,
                                                   amount, fee)
        IN IF key = ""
           THEN Fail("Error: No private key provided") /\ UNCHANGED << signed_tx, privkey >>
           ELSE /\ privkey' = key
                /\ IF ~signer_parse_ok(args.redeem_script) \/ key = "notwif"
                   THEN Raise /\ signed_tx' = signed_tx
                   ELSE /\ signed_tx' = tx
                        /\ Goto("broadcast")
    /\ UNCHANGED << request, env, lookups, submitted, redeem_script, script_info,
                    op_return_data, inputs, total_input, amount, use_p2sh, fee, raw_tx,
                    sign_complete >>

\* ------------------------------------------------------------------------
\* opreturn.py
\* ------------------------------------------------------------------------
\* opreturn.py:86-94, main once the parameters are read
OpReturnMain ==
    /\ flow = "opreturn" /\ pc = "opreturn"
    /\ IF config.bb_address = <<>> \/ config.days = 0
       THEN Fail("Error: Missing required parameters") /\ op_return_data' = op_return_data
       ELSE /\ op_return_data' = opreturn_construct_op_return(
                                    config.bb_address, config.days, config.amount_btc)
            /\ IF op_return_data' = <<>>
               THEN Fail(opreturn_error(config.bb_address, config.days,
                                        config.amount_btc))
               ELSE Finish("data")
    /\ UNCHANGED << request, env, history, redeem_script, script_info, inputs,
                    total_input, amount, use_p2sh, fee, raw_tx, signed_tx, privkey,
                    sign_complete >>

\* ------------------------------------------------------------------------
\* The environment
\* ------------------------------------------------------------------------
\* Time passes while a request runs
Tick ==
    /\ pc # "done" /\ ticks < MaxTicks
    /\ clock' = clock + 1 /\ ticks' = ticks + 1
    /\ UNCHANGED << pc, result, printed, request, ledger, nspent, work, history >>

\* Another wallet spends an output while a request runs
SpendElsewhere ==
    /\ pc # "done" /\ nspent < MaxSpent
    /\ \E o \in DOMAIN ledger :
        /\ ledger[o].status = "unspent"
        /\ ledger' = [ledger EXCEPT ![o].status = "spent"]
    /\ nspent' = nspent + 1
    /\ UNCHANGED << pc, result, printed, request, clock, ticks, work, history >>

Next ==
    \/ LoadConfig \/ CreateRedeemScript \/ ValidateScript
    \/ BuildValidate \/ BuildInputs \/ SignTransaction \/ ConfirmTransaction
    \/ SpendValidate \/ SpendLookup \/ SpendSign
    \/ Broadcast
    \/ OpReturnMain
    \/ Tick \/ SpendElsewhere

Spec == Init /\ [][Next]_vars

\* ------------------------------------------------------------------------
\* Properties
\* ------------------------------------------------------------------------
\* The locktime a redeem script's first push holds, as the spend side reads it
ScriptLockTime(script) == Unix(from_bytes_little(SubSeq(script, 2, 5)))

\* The locktime Script.create_redeem_script computes in the current state
ComputedLockTime == now + config.days * DaySeconds

\* C1: Script.create_redeem_script, asked by a ledger that answers, returns a
\* script only if the computed locktime now + days*86400 is >= now and within
\* 500_000_000 .. 0x7fffffff; at the locktimes 499_999_999 and 0x80000000 it
\* returns none, and at 500_000_000 and 0x7fffffff (valid public key, locktime
\* not before now) it returns one. Once returned, the script holds a locktime
\* in that range.
C1_LocktimeRange ==
    flow = "stake" =>
      /\ pc = "create_redeem_script" =>
           LET accepted ==
                 create_redeem_script(config.days, config.pubkey, now, TRUE) # <<>>
           IN /\ accepted => /\ ComputedLockTime >= now
                             /\ ComputedLockTime >= Unix(500000000)
                             /\ ComputedLockTime <= Unix(MaxLockTime)
              /\ ComputedLockTime \in {Unix(499999999), Unix(MaxLockTime) + 1}
                   => ~accepted
              /\ ( /\ ComputedLockTime \in {Unix(500000000), Unix(MaxLockTime)}
                   /\ ComputedLockTime >= now
                   /\ validate_pubkey(config.pubkey) ) => accepted
      /\ redeem_script # <<>> =>
           /\ ScriptLockTime(redeem_script) >= Unix(500000000)
           /\ ScriptLockTime(redeem_script) <= Unix(MaxLockTime)

\* A redeem script was returned for the locktime 500_000_000
C1_Witness ==
    /\ flow = "stake" /\ redeem_script # <<>>
    /\ ScriptLockTime(redeem_script) = Unix(500000000)

Remainder == total_input - amount - fee

HasChangeOutput(tx) ==
    \E i \in 1..Len(tx.vout) :
        tx.vout[i].key = config.change_address /\ tx.vout[i].value = Remainder

NoChangeOutput(tx) == ~HasChangeOutput(tx)

MAX_FEE == 1000000

\* C4: every fee Transaction.calculate_fees returns lies in [MIN_FEE, MAX_FEE].
C4_FeeWithinBounds ==
    fee # -1 => (min_fee <= fee /\ fee <= MAX_FEE)

\* The script spend.py was given is of the shape validate_script expects
SpendScriptShape ==
    LET info == decodescript(args.redeem_script)
    IN info.type = "nonstandard" /\ Len(info.asm) = 5 /\ AsmIntOk(info.asm)

SpendLockTime == AsmInt(decodescript(args.redeem_script).asm)

\* C5: on the reclaim path validate_script(script, spend=True), asked by a
\* ledger that answers, accepts a script of the expected shape exactly when
\* now >= locktime; and spend_stake has asked for the private key, signed or
\* broadcast only if now >= locktime.
C5_ReclaimAfterLocktime ==
    flow = "spend" =>
      /\ (pc = "validate_script" /\ SpendScriptShape) =>
           ( validate_script(decodescript(args.redeem_script), TRUE, now, TRUE)
             <=> ~(now < SpendLockTime) )
      /\ (script_info # NoInfo \/ events # <<>> \/ signed_tx # NoTx
          \/ submitted # <<>>) =>
           (SpendScriptShape /\ ~(now < SpendLockTime))

\* The key was asked for at the very second the lock expires
C5_Witness ==
    /\ flow = "spend" /\ events # <<>> /\ signed_tx # NoTx
    /\ SpendScriptShape /\ SpendLockTime = now

\* C6: the unlock transaction signed for a redeem script that passed
\* spend-side validation has transaction-level locktime equal to the locktime
\* that script encodes.
C6_UnlockLocktimeFromScript ==
    (flow = "spend" /\ signed_tx # NoTx) =>
      signed_tx.locktime = AsmInt(script_info.asm)

\* C7: the unlock transaction has the single output utxo.value - fee to the
\* destination address, and none is produced when fee >= utxo.value.
C7_UnlockPaysValueLessFee ==
    (flow = "spend" /\ signed_tx # NoTx) =>
      LET value == ledger[Outpoint(args.utxo)].value
      IN /\ Len(signed_tx.vout) = 1
         /\ signed_tx.vout[1].key = args.address
         /\ signed_tx.vout[1].value = value - fee
         /\ fee < value

Affirmative == {"y", "yes"}

\* C8: on both paths sendrawtransaction is called only with a completely
\* signed transaction, after the key prompt, and right after the operator
\* answered the "Broadcast?" prompt with y or yes (on the stake path after a
\* y or yes to "Confirm data?" as well).
C8_SubmitOnlyAfterYes ==
    /\ \A i \in 1..Len(events) :
         events[i].e = "submit" =>
           /\ i > 2
           /\ events[i - 1].e = "broadcast" /\ events[i - 1].a \in Affirmative
           /\ \E j \in 1..(i - 2) : events[j].e = "privkey"
           /\ flow = "stake" =>
                (events[i - 2].e = "confirm" /\ events[i - 2].a \in Affirmative)
    /\ \A k \in 1..Len(submitted) : submitted[k].sigs = "complete"
    /\ Len(submitted) = Cardinality({ i \in 1..Len(events) : events[i].e = "submit" })
    /\ result = "txid" => submitted # <<>>

\* A stake was submitted
C8_Witness ==
    flow = "stake" /\ submitted # <<>> /\ result = "txid"

\* C9: when the ledger's signing result has complete = false, sign_transaction
\* returns no signed transaction, the request ends with None, and nothing is
\* confirmed, broadcast or submitted.
C9_IncompleteIsFatal ==
    sign_complete = "false" =>
      /\ signed_tx = NoTx
      /\ pc = "done" /\ result = "None"
      /\ submitted = <<>>
      /\ \A i \in 1..Len(events) : events[i].e = "privkey"

\* Signing came back incomplete
C9_Witness ==
    sign_complete = "false" /\ pc = "done" /\ raw_tx # NoTx

UtxoOutpoints == [i \in 1..Len(config.utxos) |-> Outpoint(config.utxos[i])]
TxOutpoints(tx) == [i \in 1..Len(tx.vin) |-> [txid |-> tx.vin[i].txid, vout |-> tx.vin[i].vout]]

\* C10: a request gets past validate_utxos only when every reference was
\* looked up and found; build_transaction looks every reference up again and
\* builds a transaction only if each is found at that time; a built
\* transaction has exactly the requested inputs, in order.
C10_AllInputsOrNothing ==
    /\ [](flow = "stake" =>
            /\ pc \in {"build_inputs", "sign", "confirm", "broadcast"} =>
                 SubSeq(lookups, 1, Len(config.utxos)) = UtxoOutpoints
            /\ raw_tx # NoTx =>
                 /\ TxOutpoints(raw_tx) = UtxoOutpoints
                 /\ lookups = UtxoOutpoints \o UtxoOutpoints)
    /\ [][ /\ BuildValidate /\ pc' = "build_inputs" =>
                \A i \in 1..Len(config.utxos) :
                    gettxout_found(ledger, test, Outpoint(config.utxos[i]))
           /\ BuildInputs /\ raw_tx' # NoTx =>
                \A i \in 1..Len(config.utxos) :
                    gettxout_found(ledger, test, Outpoint(config.utxos[i])) ]_vars

\* An input was spent after validation passed, and nothing was built
C10_Witness ==
    /\ flow = "stake" /\ pc = "done" /\ result = "None" /\ ~test
    /\ Len(lookups) > Len(config.utxos)
    /\ Known(ledger, lookups[Len(lookups)])
    /\ ledger[lookups[Len(lookups)]].status = "spent"
    /\ raw_tx = NoTx /\ fee = -1

\* C11: build_transaction produces no transaction whenever total_input <
\* amount + fee: the request ends with None, nothing was created, the key was
\* not asked for and nothing was signed; every built lock transaction has
\* total_input >= amount + fee.
C11_InsufficientFunds ==
    flow = "stake" =>
      /\ (fee # -1 /\ total_input < amount + fee) =>
           /\ pc = "done" /\ result = "None"
           /\ raw_tx = NoTx /\ signed_tx = NoTx
           /\ events = <<>> /\ submitted = <<>>
      /\ raw_tx # NoTx => total_input >= amount + fee

\* The inputs covered the amount (validate_utxos passed) but not amount + fee
C11_Witness ==
    /\ flow = "stake" /\ pc = "done" /\ fee # -1
    /\ total_input >= amount /\ total_input < amount + fee
    /\ raw_tx = NoTx

\* The address the locked output is to go to: script_info['p2sh'] or
\* script_info['segwit']['address'], selected by use_p2sh
LockAddress ==
    IF config.use_p2sh THEN script_info.p2sh ELSE script_info.segwit.address

WireFormat(script, lock_time, pubkey) ==
    /\ Len(pubkey) = 33 /\ Len(script) = 42
    /\ script[1] = 4
    /\ \A i \in 2..5 : script[i] \in 0..255
    /\ Unix(from_bytes_little(SubSeq(script, 2, 5))) = lock_time
    /\ SubSeq(script, 6, 8) = << 177, 117, 33 >>
    /\ SubSeq(script, 9, 41) = pubkey
    /\ script[42] = 172
    /\ parse_lockts(script) = [has |-> TRUE, val |-> lock_time]

\* C13: for every (days, pubkey, now) create_redeem_script accepts, the
\* returned script is exactly 04 || LE4(now + days*86400) || b1 75 || 21 ||
\* pubkey || ac, and reading its first 4-byte push as a little-endian integer
\* gives back now + days*86400. The script a request holds is the one made
\* for the time at which it was created.
C13_ScriptWireFormat ==
    flow = "stake" =>
      /\ pc = "create_redeem_script" =>
           LET script == create_redeem_script(config.days, config.pubkey, now, TRUE)
           IN script # <<>> => WireFormat(script, ComputedLockTime, config.pubkey)
      /\ redeem_script # <<>> =>
           \E k \in 0..ticks :
               WireFormat(redeem_script,
                          ComputedLockTime - (IF test THEN 0 ELSE k), config.pubkey)

\* The test-mode script for 30 days: locktime 1711944215 = 0x660a3217
C13_Witness ==
    /\ flow = "stake" /\ test /\ config.days = 30
    /\ redeem_script =
         << 4, 23, 50, 10, 102, 177, 117, 33 >> \o config.pubkey \o << 172 >>

\* The value of a string of lower-case hex digits, most significant first
RECURSIVE HexValue(_)
HexValue(d) ==
    IF d = <<>> THEN 0
    ELSE 16 * HexValue(SubSeq(d, 1, Len(d) - 1))
         + (CHOOSE v \in 0..15 : HexChars[v + 1] = d[Len(d)])

LowerHexChars == DecimalDigits \cup { "a", "b", "c", "d", "e", "f" }
IsHexString(d) == \A i \in 1..Len(d) : d[i] \in LowerHexChars

\* What the encoders were asked to encode in this request
PayloadAddress == config.bb_address
PayloadDays == config.days
PayloadAmount == config.amount_btc

\* C14: a payload returned by either encoder is exactly 104 hex characters:
\* magic(4 bytes) || chain_id(2) || contract_address(20) ||
\* beneficiary_address(20) || amount_units big-endian(4) || days big-endian(2).
C14_PayloadLayout ==
    op_return_data # <<>> =>
      /\ Len(op_return_data) = 104
      /\ IsHexString(op_return_data)
      /\ SubSeq(op_return_data, 1, 8) = Magic
      /\ SubSeq(op_return_data, 9, 12) = BB_CHAIN_ID
      /\ SubSeq(op_return_data, 13, 52) = BB_CONTRACT
      /\ SubSeq(op_return_data, 53, 92) = lower(drop2(PayloadAddress))
      /\ HexValue(SubSeq(op_return_data, 93, 100)) = amount_mbtc(PayloadAmount)
      /\ HexValue(SubSeq(op_return_data, 101, 104)) = PayloadDays

\* The inputs section 4.1 of the specification calls valid: an address of
\* exactly 20 bytes, amount * 1000 a positive integer that fits in 4 bytes
\* (every amount here fits), days in (0, 365]
ValidPayloadInputs ==
    /\ bb_address_ok(PayloadAddress)
    /\ PayloadAmount > 0 /\ PayloadAmount % 100000 = 0
    /\ PayloadDays > 0 /\ PayloadDays <= 365

\* C15: encoding returns no payload when the address is not exactly 20 bytes,
\* when amount*1000 is not a positive integer, or when days is not in
\* (0, 365]; no stake request with such inputs holds a payload or reaches
\* transaction building.
C15_PayloadValidation ==
    /\ op_return_data # <<>> => ValidPayloadInputs
    /\ (flow = "stake" /\ pc \in {"build_validate", "build_inputs", "sign",
                                  "confirm", "broadcast"}) => ValidPayloadInputs

\* The decoder of section 4.1 of the specification (the repository has
\* none): it reads the fields back from their fixed places and rejects a
\* payload of another length, with another magic, or that is not hex.
\* The address is its 20 bytes in lower-case hex, the amount is in mBTC.
decode_payload(p) ==
    IF Len(p) # 104 \/ ~IsHexString(p) \/ SubSeq(p, 1, 8) # Magic
    THEN [ok |-> FALSE, address |-> <<>>, amount |-> 0, days |-> 0]
    ELSE [ok |-> TRUE,
          address |-> SubSeq(p, 53, 92),
          amount |-> HexValue(SubSeq(p, 93, 100)),
          days |-> HexValue(SubSeq(p, 101, 104))]

\* Valid (address, days, amount) triples to compare a payload against
ValidTriples ==
    [address : { BBAddress, BBAddressUpper, << "0", "x" >> \o Repeat("A", 40),
                 << "0", "x" >> \o Repeat("b", 40) },
     days : { 1, 30, 255, 256, 365 },
     amount : { StakeAmount, 2 * StakeAmount }]

\* The encoder has just returned: Script.construct_op_return at stake.py:38,
\* construct_op_return at opreturn.py:92
JustEncoded ==
    \/ flow = "stake" /\ pc = "build_validate"
    \/ flow = "opreturn" /\ pc = "done"

\* C16: for valid (address, days, amount), decoding the payload an encoder
\* returned gives back the same address (as 20 bytes), days and amount, and
\* no valid triple with another address, days or amount encodes to the same
\* payload, by either encoder.
C16_PayloadRoundTrip ==
    (JustEncoded /\ op_return_data # <<>> /\ ValidPayloadInputs) =>
      LET decoded == decode_payload(op_return_data)
      IN /\ decoded = [ok |-> TRUE,
                       address |-> lower(drop2(PayloadAddress)),
                       amount |-> amount_mbtc(PayloadAmount),
                       days |-> PayloadDays]
         /\ decoded.amount * 100000 = PayloadAmount
         /\ \A t \in ValidTriples :
              ( \/ construct_op_return(t.address, t.days, t.amount) = op_return_data
                \/ opreturn_construct_op_return(t.address, t.days, t.amount)
                     = op_return_data )
              => /\ lower(drop2(t.address)) = lower(drop2(PayloadAddress))
                 /\ t.days = PayloadDays
                 /\ t.amount = PayloadAmount

\* A mixed-case address, 365 days and 0.002 BTC were encoded
C16_Witness ==
    /\ JustEncoded /\ op_return_data # <<>> /\ ValidPayloadInputs
    /\ PayloadAddress = BBAddressUpper /\ PayloadDays = 365
    /\ PayloadAmount = 2 * StakeAmount

\* C17: every unlock transaction has exactly one input, referencing the
\* locked output, with sequence number 0xfffffffe, on the script-hash and on
\* the witness-script-hash signing path, whatever redeem script the signer
\* was given.
C17_UnlockInputSequence ==
    (flow = "spend" /\ signed_tx # NoTx) =>
      /\ Len(signed_tx.vin) = 1
      /\ signed_tx.vin[1].txid = Outpoint(args.utxo).txid
      /\ signed_tx.vin[1].vout = Outpoint(args.utxo).vout
      /\ signed_tx.vin[1].sequence = "fffffffe"

\* C18: a request with a UTXO reference that does not match
\* '64 hex characters : non-negative integer' fails, and no gettxout lookup
\* is made for it, on the stake path and on the reclaim path.
C18_MalformedNoLookup ==
    /\ (flow = "stake"
        /\ \E i \in 1..Len(config.utxos) : ~utxo_format_ok(config.utxos[i])) =>
         /\ lookups = <<>>
         /\ raw_tx = NoTx /\ submitted = <<>>
         /\ pc = "done" => result \in {"None", "raised"}
    /\ (flow = "spend" /\ ~utxo_format_ok(args.utxo)) =>
         /\ lookups = <<>>
         /\ signed_tx = NoTx /\ submitted = <<>>
         /\ pc = "done" => result \in {"None", "raised"}

\* The key was asked for, something was signed, or something was submitted
SignedOrSubmitted ==
    events # <<>> \/ signed_tx # NoTx \/ submitted # <<>>

\* C19: in create_stake and in spend_stake a validation failure (address,
\* public key, locktime range, script shape, UTXO format or availability,
\* insufficient funds, fee exceeding the amount) ends the request before the
\* private key is asked for and before anything is submitted: a request that
\* got as far as the key prompt has passed every one of them, and a request
\* that ended on a failure stays ended.
C19_ValidationAborts ==
    /\ (flow = "stake" /\ SignedOrSubmitted) =>
         /\ validate_address(config.change_address)
         /\ validate_pubkey(config.pubkey)
         /\ redeem_script # <<>>
         /\ ScriptLockTime(redeem_script) >= Unix(500000000)
         /\ ScriptLockTime(redeem_script) <= Unix(MaxLockTime)
         /\ \A i \in 1..Len(config.utxos) : utxo_format_ok(config.utxos[i])
         /\ lookups = UtxoOutpoints \o UtxoOutpoints
         /\ fee # -1 /\ total_input >= amount + fee
         /\ raw_tx # NoTx
    /\ (flow = "spend" /\ SignedOrSubmitted) =>
         /\ validate_address(args.address)
         /\ SpendScriptShape /\ ~(now < SpendLockTime)
         /\ utxo_format_ok(args.utxo)
         /\ lookups = << Outpoint(args.utxo) >>
         /\ fee # -1 /\ fee < amount
    /\ (pc = "done" /\ ~SignedOrSubmitted) => result \in {"None", "raised", "data"}

\* The operator declined at the prompt the request ended on
Declined ==
    /\ pc = "done" /\ events # <<>>
    /\ events[Len(events)].e \in {"confirm", "broadcast"}
    /\ events[Len(events)].a \notin Affirmative

\* C20: when the operator declines at a confirmation prompt, the flow ends
\* with nothing submitted and no error is reported; in particular a decline
\* is not reported as a broadcast failure.
C20_DeclineNotError ==
    Declined =>
      /\ submitted = <<>>
      /\ result = "None"
      /\ printed = ""
      /\ printed # BroadcastFailed

\* C21: after Transaction.sign_transaction has returned, successfully or not,
\* nothing returned to or held by create_stake contains the private key.
C21_KeyNotRetained ==
    (flow = "stake" /\ \E i \in 1..Len(events) : events[i].e = "privkey") =>
      privkey = ""

\* The size the claimed model gives the transaction of this request: 222 on
\* the witness-script-hash path, 300 on the script-hash path, and 148 more
\* for each input beyond the first
ClaimedSize ==
    LET script_hash == IF flow = "stake" THEN config.use_p2sh ELSE use_p2sh
        n_inputs == IF flow = "stake" THEN Len(config.utxos) ELSE 1
    IN (IF script_hash THEN 300 ELSE 222) + 148 * (n_inputs - 1)

\* C22: the fee calculate_fees returns is rate * size / 1000 (raised to the
\* minimum fee when below it) for the size of the claimed model, so it
\* depends on use_p2sh and on the number of inputs.
C22_FeeSizeModel ==
    fee # -1 =>
      \E rate \in FeeRates \ {-1} :
          LET claimed == QuantizeHalfEven(rate * ClaimedSize, 1000)
          IN fee = IF claimed < min_fee THEN min_fee ELSE claimed

\* A step in which a ledger call or a check fails: it prints an error line or
\* the traceback of an uncaught exception
StepFails == printed' # printed

\* C23: within one request sendrawtransaction is invoked at most once, and no
\* failed ledger call is attempted again: the step that submits and every step
\* that fails end the request, and an ended request makes no further call.
C23_NoRetry ==
    [][ /\ Len(submitted') <= 1
        /\ submitted' # submitted => pc' = "done"
        /\ StepFails => pc' = "done"
        /\ pc = "done" => UNCHANGED << pc, lookups, events, submitted >> ]_vars

C23_Witness ==
    /\ pc = "done" /\ Len(submitted) = 1
    /\ result = "None" /\ printed = BroadcastFailed

\* Rates the fee of a request is compared with: the answers the ledger gives
\* in this model, the lowest rates (every rounding case of rate * 300 / 1000)
\* and the rates around the one whose fee reaches the minimum fee
ComparedRates == (FeeRates \ {-1}) \cup (0..20) \cup (3330..3345)

\* calculate_fees has just returned the fee of the request
JustPriced == pc = "sign" /\ fee # -1

\* C24: calculate_fees is monotonic non-decreasing in the rate: the fee it
\* returns to a request is at least the fee of every rate below the request's
\* rate and at most the fee of every rate above it.
C24_FeeMonotonic ==
    JustPriced =>
      \A r1 \in FeeRates \ {-1} :
          calculate_fees(r1) = fee =>
            \A r2 \in ComparedRates :
                /\ r1 <= r2 => fee <= calculate_fees(r2)
                /\ r2 <= r1 => calculate_fees(r2) <= fee

C24_Witness == pc = "sign" /\ fee = calculate_fees(3340) /\ fee > min_fee

\* The fixed template: push4 OP_CHECKLOCKTIMEVERIFY OP_DROP push33 OP_CHECKSIG
MatchesTemplate(script) ==
    LET el == script_elements(script)
    IN /\ Len(el) = 5
       /\ IsPush(el[1], 4)
       /\ IsOp(el[2], OP_CHECKLOCKTIMEVERIFY)
       /\ IsOp(el[3], OP_DROP)
       /\ IsPush(el[4], 33)
       /\ IsOp(el[5], OP_CHECKSIG)

\* C25: a script that validate_script has accepted on the reclaim path, and
\* that spend_stake goes on to look up, sign for or broadcast with, matches
\* the template push4 OP_CHECKLOCKTIMEVERIFY OP_DROP push33 OP_CHECKSIG.
C25_TemplateOnly ==
    (flow = "spend" /\ script_info # NoInfo) => MatchesTemplate(args.redeem_script)

RecordedUnits ==
    HexValue(SubSeq(op_return_data, Len(op_return_data) - 11, Len(op_return_data) - 4))

\* The value in satoshi of the output the built transaction pays to the lock
\* address
LockedValue == raw_tx.vout[1].value

RECURSIVE distinct_total(_, _)
distinct_total(utxos, seen) ==
    IF utxos = <<>> THEN 0
    ELSE LET o == Outpoint(Head(utxos))
         IN (IF o \in seen THEN 0 ELSE ledger[o].value)
            + distinct_total(Tail(utxos), seen \cup {o})

DistinctTotal == distinct_total(config.utxos, {})

\* C28: the input total counts each distinct outpoint at most once: a request
\* is past validate_utxos only if the distinct outputs cover the amount, and a
\* built transaction rests on a total that is the value of the distinct
\* outputs, so that a repeated reference adds nothing to the change.
C28_DistinctOutpointsCounted ==
    flow = "stake" =>
      /\ pc \in {"build_inputs", "sign", "confirm", "broadcast"} =>
           DistinctTotal >= amount
      /\ raw_tx # NoTx =>
           /\ total_input = DistinctTotal
           /\ HasChangeOutput(raw_tx) => DistinctTotal - amount - fee > 0

====
